---- MODULE Spec2Model ----
(***************************************************************************)
(* Progress Director (src/app.py): one Streamlit script that, on every     *)
(* rerun, reads four cached source adapters, builds the map layers and     *)
(* the sidebar metrics, and shows the map.                                 *)
(*                                                                         *)
(* Spec          the script rerun after rerun, with the st.cache_data      *)
(*               entries, the clock and the outcomes of the outbound calls *)
(* FairSpec      Spec with weak fairness of the script's steps             *)
(* RenderSpec    the rendering half of one rerun (lines 78-149) started    *)
(*               from every zone table of a bounded set                    *)
(* ClassifySpec  the colour ladder of line 93 applied to every percentage  *)
(*               of a bounded range                                        *)
(***************************************************************************)
EXTENDS Integers, Sequences, FiniteSets, TLC

\* ---------------------------------------------------------------- bounds
MaxAdvances == 2
MaxFeatures == 2
MaxPct == 100

\* ------------------------------------------------------ program constants
TTL_ELECTRICITY == 300
TTL_RESTOR == 3600
TTL_OCEAN == 1800
TTL_ECOSIA == 120
OCEAN_FALLBACK == 750000000
ECOSIA_FALLBACK == 215000000

\* ------------------------------------------------------- value encodings
\* Python None, and equally a key that dict.get() does not find, in a
\* numeric position.
None == -1
\* A missing or empty string (falsy in Python).
NoName == ""
\* The empty dict {}.
EmptyDict == [z \in {} |-> 0]

ELEC == "get_electricity_data"
RESTOR == "get_restor_sites"
OCEAN == "get_ocean_cleanup"
ECOSIA == "get_ecosia_trees"
Sources == {ELEC, RESTOR, OCEAN, ECOSIA}

ZonesUrl == "api.electricitymaps.com/v5/zones"
IntensityUrl == "api.electricitymaps.com/v5/carbon-intensity/latest"
RestorUrl == "api.restor.eco/sites"
OceanUrl == "theoceancleanup.com/progress"
EcosiaUrl == "ecosia.org/trees"
GeoUrl == "electricitymaps-contrib/web/geo/world.geojson"

\* The decorators' ttl arguments.
ttl == [s \in Sources |->
          IF s = ELEC THEN TTL_ELECTRICITY
          ELSE IF s = RESTOR THEN TTL_RESTOR
          ELSE IF s = OCEAN THEN TTL_OCEAN
          ELSE TTL_ECOSIA]

\* ------------------------------------------------------- pure functions
\* Python's `a or b` on numbers and None: a unless a is falsy (None or 0).
PyOr(a, b) == IF a # None /\ a # 0 THEN a ELSE b

\* Line 90.
pct_of(z) == PyOr(z.lowCarbonPercentage, z.renewablePercentage)

\* Line 93, mutated: the first threshold is not strict.
classify_ge(p) ==
    IF p >= 80 THEN "darkgreen"
    ELSE IF p > 60 THEN "green"
    ELSE IF p > 40 THEN "lightgreen"
    ELSE IF p > 20 THEN "yellow"
    ELSE "orange"

\* Line 93.
classify(p) ==
    IF p > 80 THEN "darkgreen"
    ELSE IF p > 60 THEN "green"
    ELSE IF p > 40 THEN "lightgreen"
    ELSE IF p > 20 THEN "yellow"
    ELSE "orange"

\* Line 102: zones[zone_id].get('countryName', zone_id).
tooltip_name(z, zone_id) == IF z.countryName = NoName THEN zone_id ELSE z.countryName

\* Lines 86-103: the loop over the geometry features, from feature i on.
RECURSIVE electricity_loop(_, _, _)
electricity_loop(features, zs, i) ==
    IF i > Len(features) THEN << >>
    ELSE LET zone_id == features[i].zoneName
             rest == electricity_loop(features, zs, i + 1)
         IN  IF zone_id = NoName \/ zone_id \notin DOMAIN zs THEN rest
             ELSE LET p == pct_of(zs[zone_id])
                  IN  IF p = None THEN rest
                      ELSE << [geom |-> i,
                               zone |-> zone_id,
                               pct |-> p,
                               fillColor |-> classify(p),
                               tooltip |-> tooltip_name(zs[zone_id], zone_id)] >>
                           \o rest

\* The value the script's variable pct holds after the loop of lines 86-103
\* (line 90 assigns it for every feature that passes line 88).
RECURSIVE loop_pct(_, _, _, _)
loop_pct(features, zs, i, last) ==
    IF i > Len(features) THEN last
    ELSE LET zone_id == features[i].zoneName
         IN  IF zone_id = NoName \/ zone_id \notin DOMAIN zs
             THEN loop_pct(features, zs, i + 1, last)
             ELSE loop_pct(features, zs, i + 1, pct_of(zs[zone_id]))

\* The value the script's variable color holds after the loop (line 93).
loop_color(layer, last) ==
    IF layer = << >> THEN last ELSE layer[Len(layer)].fillColor

RECURSIVE sum_low(_, _)
sum_low(zs, ids) ==
    IF ids = {} THEN 0
    ELSE LET z == CHOOSE x \in ids : TRUE
         IN  (IF zs[z].lowCarbonPercentage # None THEN zs[z].lowCarbonPercentage ELSE 0)
             + sum_low(zs, ids \ {z})

\* Line 145, inside `if zones`: the quotient as numerator and denominator.
avg_low_carbon(zs) ==
    [num |-> sum_low(zs, DOMAIN zs), den |-> Cardinality(DOMAIN zs)]

\* Lines 110-119: one marker per row, coordinates reversed.
RECURSIVE restor_markers(_, _)
restor_markers(df, i) ==
    IF i > Len(df) THEN << >>
    ELSE << [location |-> << df[i].coordinates[2], df[i].coordinates[1] >>,
             popup |-> df[i].name] >>
         \o restor_markers(df, i + 1)

\* ------------------------------------------------------ upstream replies
\* What one requests.get(...) can meet: an exception ("error": connection
\* refused, body that .json() cannot parse), a body ("ok"), or an upstream
\* that never answers ("silent").
ZoneIds == {"A", "B", "C"}
Listing(D) == [z \in D |-> [countryName |-> IF z = "A" THEN "Aland" ELSE NoName]]
Metric(low, ren) == [lowCarbonPercentage |-> low, renewablePercentage |-> ren]
Report1 == [z \in {"A", "B"} |-> IF z = "A" THEN Metric(80, None) ELSE Metric(None, 90)]
Report2 == [z \in {"A", "C"} |-> Metric(0, None)]

ZonesReplies ==
    { [kind |-> k, body |-> EmptyDict] : k \in {"error", "silent"} }
    \cup { [kind |-> "ok", body |-> Listing({"A", "B"})] }
IntensityReplies ==
    { [kind |-> k, body |-> EmptyDict] : k \in {"error", "silent"} }
    \cup { [kind |-> "ok", body |-> b] : b \in {Report1, Report2} }

Site1 == [name |-> "s1", coordinates |-> << 10, 50 >>]
RestorReplies ==
    { [kind |-> k, has_features |-> FALSE, features |-> << >>] : k \in {"error", "silent", "ok"} }
    \cup { [kind |-> "ok", has_features |-> TRUE, features |-> f] : f \in { << >>, << Site1 >> } }

OceanReplies ==
    { [kind |-> k, total_intercepted |-> None] : k \in {"error", "silent", "ok"} }
    \cup { [kind |-> "ok", total_intercepted |-> 751000000] }

EcosiaReplies ==
    { [kind |-> k, trees_count |-> None, trees |-> None] : k \in {"error", "silent", "ok"} }
    \cup { [kind |-> "ok", trees_count |-> 216000000, trees |-> None],
           [kind |-> "ok", trees_count |-> None, trees |-> 217000000] }

GeoNames == ZoneIds \cup {"X", NoName}
GeoFeeds(names) ==
    UNION { [1..n -> { [zoneName |-> z] : z \in names }] : n \in 0..MaxFeatures }
GeoReplies(feeds) ==
    { [kind |-> k, has_features |-> FALSE, features |-> << >>] : k \in {"error", "silent", "ok"} }
    \cup { [kind |-> "ok", has_features |-> TRUE, features |-> f] : f \in feeds }

\* ------------------------------------------------------- source adapters
\* What one invocation of an adapter does: the value it returns, the
\* endpoints it contacted, whether it raised, the endpoint it is blocked on
\* (requests.get has no timeout argument anywhere in app.py), and how the
\* fetch went ("live"; "failed": the call raised, or the expected field or
\* pattern was absent; "notoken"; "silent").
Returned(v, calls, how) ==
    [value |-> v, calls |-> calls, raised |-> FALSE, blocked |-> "none", outcome |-> how]
Blocked(v, calls, url) ==
    [value |-> v, calls |-> calls, raised |-> FALSE, blocked |-> url, outcome |-> "silent"]
Raised(v, calls) ==
    [value |-> v, calls |-> calls, raised |-> TRUE, blocked |-> "none", outcome |-> "failed"]

\* Lines 31-33: zones[zone_id].update(data) for the zones of both bodies.
merge_zones(listing, report) ==
    [z \in DOMAIN listing |->
        [countryName |-> listing[z].countryName,
         lowCarbonPercentage |->
            IF z \in DOMAIN report THEN report[z].lowCarbonPercentage ELSE None,
         renewablePercentage |->
            IF z \in DOMAIN report THEN report[z].renewablePercentage ELSE None]]

\* Lines 23-36 without the guard of lines 25-26.
get_electricity_data_unguarded(tok, zr, ir) ==
    IF zr.kind = "silent" THEN Blocked(EmptyDict, {ZonesUrl}, ZonesUrl)
    ELSE IF zr.kind = "error" THEN Returned(EmptyDict, {ZonesUrl}, "failed")
    ELSE IF ir.kind = "silent" THEN Blocked(EmptyDict, {ZonesUrl, IntensityUrl}, IntensityUrl)
    ELSE IF ir.kind = "error" THEN Returned(EmptyDict, {ZonesUrl, IntensityUrl}, "failed")
    ELSE Returned(merge_zones(zr.body, ir.body), {ZonesUrl, IntensityUrl}, "live")

\* Lines 23-36.
get_electricity_data(tok, zr, ir) ==
    IF ~tok THEN Returned(EmptyDict, {}, "notoken")
    ELSE IF zr.kind = "silent" THEN Blocked(EmptyDict, {ZonesUrl}, ZonesUrl)
    ELSE IF zr.kind = "error" THEN Returned(EmptyDict, {ZonesUrl}, "failed")
    ELSE IF ir.kind = "silent" THEN Blocked(EmptyDict, {ZonesUrl, IntensityUrl}, IntensityUrl)
    ELSE IF ir.kind = "error" THEN Returned(EmptyDict, {ZonesUrl, IntensityUrl}, "failed")
    ELSE Returned(merge_zones(zr.body, ir.body), {ZonesUrl, IntensityUrl}, "live")

\* Lines 42-48: data["features"] raises KeyError when the key is absent.
get_restor_sites(r) ==
    IF r.kind = "silent" THEN Blocked(<< >>, {RestorUrl}, RestorUrl)
    ELSE IF r.kind = "error" THEN Returned(<< >>, {RestorUrl}, "failed")
    ELSE IF ~r.has_features THEN Returned(<< >>, {RestorUrl}, "failed")
    ELSE Returned(r.features, {RestorUrl}, "live")

\* Lines 54-61 without the try/except and without the `if match else`.
get_ocean_cleanup_unprotected(r) ==
    IF r.kind = "silent"
    THEN Blocked([totalPlasticRemoved |-> None], {OceanUrl}, OceanUrl)
    ELSE IF r.kind = "error" \/ r.total_intercepted = None
    THEN Raised([totalPlasticRemoved |-> None], {OceanUrl})
    ELSE Returned([totalPlasticRemoved |-> r.total_intercepted], {OceanUrl}, "live")

\* Lines 54-61.
get_ocean_cleanup(r) ==
    IF r.kind = "silent"
    THEN Blocked([totalPlasticRemoved |-> None], {OceanUrl}, OceanUrl)
    ELSE IF r.kind = "error"
    THEN Returned([totalPlasticRemoved |-> OCEAN_FALLBACK], {OceanUrl}, "failed")
    ELSE IF r.total_intercepted = None
    THEN Returned([totalPlasticRemoved |-> OCEAN_FALLBACK], {OceanUrl}, "failed")
    ELSE Returned([totalPlasticRemoved |-> r.total_intercepted], {OceanUrl}, "live")

\* Lines 67-73: the first pattern, or else the second, or else the fallback.
get_ecosia_trees(r) ==
    IF r.kind = "silent" THEN Blocked(None, {EcosiaUrl}, EcosiaUrl)
    ELSE IF r.kind = "error" THEN Returned(ECOSIA_FALLBACK, {EcosiaUrl}, "failed")
    ELSE IF r.trees_count # None THEN Returned(r.trees_count, {EcosiaUrl}, "live")
    ELSE IF r.trees # None THEN Returned(r.trees, {EcosiaUrl}, "live")
    ELSE Returned(ECOSIA_FALLBACK, {EcosiaUrl}, "failed")

\* ----------------------------------------------------------------- state
VARIABLES
    token,              \* st.secrets has electricitymaps_token
    now,                \* the clock, in seconds
    advances,           \* how often the clock has advanced
    pc,                 \* where the script run is
    blocked,            \* the endpoint whose reply the run waits for
    err,                \* where the uncaught exception of a crashed run came from
    cache,              \* the st.cache_data entry of each adapter
    zones,              \* line 38
    restor_df,          \* line 50
    ocean,              \* line 63
    ecosia_trees,       \* line 75
    geojson_data,       \* line 84: the features of the geometry feed
    pct,                \* line 90
    color,              \* line 93
    electricity_layer,  \* the features of lines 94-103
    layers,             \* the feature groups added to the map m
    cluster,            \* the markers of lines 113-119
    sidebar,            \* the metrics of lines 142-146
    shown,              \* st_folium(m) has run (line 149)
    contacted,          \* the endpoints an outbound call was ever issued to
    ran,                \* adapter invocations made by the latest call of a decorated adapter
    inWindow,           \* adapter invocations inside the stored entry's TTL window
    lastOutcome         \* how the latest invocation of each adapter went

globals == << zones, restor_df, ocean, ecosia_trees, geojson_data >>
outputs == << pct, color, electricity_layer, layers, cluster, sidebar, shown >>
history == << contacted, ran, inWindow, lastOutcome >>
vars == << token, now, advances, pc, blocked, err, cache, globals, outputs, history >>

NoSidebar == [trees |-> None, plastic |-> None, avg_shown |-> FALSE,
              avg |-> [num |-> 0, den |-> 0]]
NoOcean == [totalPlasticRemoved |-> None]

EmptyEntry(s) ==
    [stored |-> FALSE, at |-> 0,
     value |-> IF s = ELEC THEN EmptyDict
               ELSE IF s = RESTOR THEN << >>
               ELSE IF s = OCEAN THEN NoOcean
               ELSE None]

\* The state of a fresh script run before line 38.
Fresh_run ==
    /\ zones = EmptyDict /\ restor_df = << >> /\ ocean = NoOcean /\ ecosia_trees = None
    /\ geojson_data = << >>
    /\ pct = None /\ color = "unset" /\ electricity_layer = << >> /\ layers = {}
    /\ cluster = << >> /\ sidebar = NoSidebar /\ shown = FALSE

Init ==
    /\ token \in BOOLEAN
    /\ now = 0 /\ advances = 0
    /\ pc = "idle" /\ blocked = "none" /\ err = "none"
    /\ cache = [s \in Sources |-> EmptyEntry(s)]
    /\ Fresh_run
    /\ contacted = {}
    /\ ran = 0
    /\ inWindow = [s \in Sources |-> 0]
    /\ lastOutcome = [s \in Sources |-> "none"]

\* ------------------------------------------------------------- the clock
\* Each call of a decorated adapter reads the clock once. Time passes between
\* script runs and while a run waits for a reply.
Deltas == {60, 120, 300, 1800, 3600}

Advance ==
    /\ advances < MaxAdvances
    /\ pc \in {"idle", "crashed"} \/ blocked # "none"
    /\ \E d \in Deltas : now' = now + d
    /\ advances' = advances + 1
    /\ UNCHANGED << token, pc, blocked, err, cache, globals, outputs, history >>

\* ---------------------------------------------------------- st.cache_data
\* The entry is served while its age is below the decorator's ttl, mutated:
\* it is still served at age = ttl.
Fresh_le(s) == cache[s].stored /\ now <= cache[s].at + ttl[s]

\* The entry is never served.
Fresh_never(s) == FALSE

\* @st.cache_data(ttl=...): the entry is served while its age is below ttl.
Fresh(s) == cache[s].stored /\ now < cache[s].at + ttl[s]

\* now lies in [fetched_at, fetched_at + ttl) of the stored entry.
InWindow(s) == cache[s].stored /\ cache[s].at <= now /\ now < cache[s].at + ttl[s]

After(s) ==
    IF s = ELEC THEN RESTOR
    ELSE IF s = RESTOR THEN OCEAN
    ELSE IF s = OCEAN THEN ECOSIA
    ELSE "electricity_layer"

\* Lines 38, 50, 63, 75: the script's variable takes what get() returned.
Assign(s, v) ==
    /\ zones' = IF s = ELEC THEN v ELSE zones
    /\ restor_df' = IF s = RESTOR THEN v ELSE restor_df
    /\ ocean' = IF s = OCEAN THEN v ELSE ocean
    /\ ecosia_trees' = IF s = ECOSIA THEN v ELSE ecosia_trees
    /\ UNCHANGED geojson_data

\* A call of a decorated adapter that finds a live entry.
Hit(s) ==
    /\ pc = s /\ blocked = "none"
    /\ Fresh(s)
    /\ Assign(s, cache[s].value)
    /\ ran' = 0
    /\ pc' = After(s)
    /\ UNCHANGED << token, now, advances, blocked, err, cache, outputs,
                    contacted, inWindow, lastOutcome >>

\* A call of a decorated adapter that finds no live entry: the adapter runs,
\* with result r, and what it returns is stored with the time.
Miss(s, r) ==
    /\ pc = s /\ blocked = "none"
    /\ ~Fresh(s)
    /\ contacted' = contacted \cup r.calls
    /\ ran' = 1
    /\ inWindow' = [inWindow EXCEPT ![s] = IF InWindow(s) THEN 2 ELSE 1]
    /\ lastOutcome' = [lastOutcome EXCEPT ![s] = r.outcome]
    /\ IF r.blocked # "none"
       THEN /\ blocked' = r.blocked
            /\ UNCHANGED << pc, err, cache, globals >>
       ELSE IF r.raised
       THEN /\ pc' = "crashed" /\ err' = s
            /\ UNCHANGED << blocked, cache, globals >>
       ELSE /\ cache' = [cache EXCEPT ![s] = [stored |-> TRUE, at |-> now, value |-> r.value]]
            /\ Assign(s, r.value)
            /\ pc' = After(s)
            /\ UNCHANGED << blocked, err >>
    /\ UNCHANGED << token, now, advances, outputs >>

MissElectricity ==
    \E zr \in ZonesReplies, ir \in IntensityReplies :
        Miss(ELEC, get_electricity_data(token, zr, ir))
MissRestor == \E r \in RestorReplies : Miss(RESTOR, get_restor_sites(r))
MissOcean == \E r \in OceanReplies : Miss(OCEAN, get_ocean_cleanup(r))
MissEcosia == \E r \in EcosiaReplies : Miss(ECOSIA, get_ecosia_trees(r))

\* ------------------------------------------------------------ the script
\* A rerun of the script: every variable of the previous run is gone; the
\* cache is the process's.
Rerun ==
    /\ pc \in {"idle", "crashed"}
    /\ pc' = ELEC /\ err' = "none"
    /\ zones' = EmptyDict /\ restor_df' = << >> /\ ocean' = NoOcean
    /\ ecosia_trees' = None /\ geojson_data' = << >>
    /\ pct' = None /\ color' = "unset" /\ electricity_layer' = << >> /\ layers' = {}
    /\ cluster' = << >> /\ sidebar' = NoSidebar /\ shown' = FALSE
    /\ UNCHANGED << token, now, advances, blocked, cache, history >>

\* Lines 78-104 when zones is empty: no layer, no geometry fetch.
NoElectricityLayer ==
    /\ pc = "electricity_layer" /\ blocked = "none"
    /\ zones = EmptyDict
    /\ pc' = "restor_layer"
    /\ UNCHANGED << token, now, advances, blocked, err, cache, globals, outputs, history >>

\* Lines 81-104 when zones is not empty: the geometry feed is fetched, outside
\* any try, and every feature is joined, classified and styled.
ElectricityLayer(feeds) ==
    /\ pc = "electricity_layer" /\ blocked = "none"
    /\ zones # EmptyDict
    /\ contacted' = contacted \cup {GeoUrl}
    /\ \E g \in GeoReplies(feeds) :
        IF g.kind = "silent"
        THEN /\ blocked' = GeoUrl
             /\ UNCHANGED << pc, err, geojson_data, outputs >>
        ELSE IF g.kind = "error" \/ ~g.has_features
        THEN /\ pc' = "crashed" /\ err' = GeoUrl
             /\ UNCHANGED << blocked, geojson_data, outputs >>
        ELSE /\ geojson_data' = g.features
             /\ electricity_layer' = electricity_loop(g.features, zones, 1)
             /\ pct' = loop_pct(g.features, zones, 1, pct)
             /\ color' = loop_color(electricity_layer', color)
             /\ layers' = layers \cup {"electricity"}
             /\ pc' = "restor_layer"
             /\ UNCHANGED << blocked, err, cluster, sidebar, shown >>
    /\ UNCHANGED << token, now, advances, cache, zones, restor_df, ocean, ecosia_trees,
                    ran, inWindow, lastOutcome >>

\* Lines 107-120.
RestorLayer ==
    /\ pc = "restor_layer" /\ blocked = "none"
    /\ IF restor_df # << >>
       THEN /\ cluster' = restor_markers(restor_df, 1)
            /\ layers' = layers \cup {"restor"}
       ELSE UNCHANGED << cluster, layers >>
    /\ pc' = "sidebar"
    /\ UNCHANGED << token, now, advances, blocked, err, cache, globals,
                    pct, color, electricity_layer, sidebar, shown, history >>

\* Lines 141-146.
Sidebar ==
    /\ pc = "sidebar" /\ blocked = "none"
    /\ sidebar' = [trees |-> ecosia_trees,
                   plastic |-> ocean.totalPlasticRemoved,
                   avg_shown |-> zones # EmptyDict,
                   avg |-> IF zones # EmptyDict THEN avg_low_carbon(zones)
                           ELSE [num |-> 0, den |-> 0]]
    /\ pc' = "st_folium"
    /\ UNCHANGED << token, now, advances, blocked, err, cache, globals,
                    pct, color, electricity_layer, layers, cluster, shown, history >>

\* Line 149.
Show ==
    /\ pc = "st_folium" /\ blocked = "none"
    /\ shown' = TRUE
    /\ pc' = "idle"
    /\ UNCHANGED << token, now, advances, blocked, err, cache, globals,
                    pct, color, electricity_layer, layers, cluster, sidebar, history >>

MainGeoFeeds ==
    { << >>, << [zoneName |-> "A"] >>, << [zoneName |-> "X"], [zoneName |-> "A"] >> }

\* The steps the script takes by itself once a run has started.
Run ==
    \/ \E s \in Sources : Hit(s)
    \/ MissElectricity
    \/ MissRestor
    \/ MissOcean
    \/ MissEcosia
    \/ NoElectricityLayer
    \/ ElectricityLayer(MainGeoFeeds)
    \/ RestorLayer
    \/ Sidebar
    \/ Show

Next == Rerun \/ Run \/ Advance

Spec == Init /\ [][Next]_vars

FairSpec == Spec /\ WF_vars(Run)

\* ------------------------------------------- the rendering half of a run
\* Every zone table the adapter can return over ZoneIds with the percentages
\* of RenderPcts: the state of a run at line 78, the four adapters called at
\* time 0, the three that need no credential having fallen back.
RenderPcts == {None, 0, 40, 80}
RenderRens == {None, 90}
ZoneTables ==
    UNION { [D -> { [countryName |-> NoName,
                     lowCarbonPercentage |-> l,
                     renewablePercentage |-> r] : l \in RenderPcts, r \in RenderRens }]
            : D \in SUBSET ZoneIds }

AfterAdapters(zs) ==
    /\ token = TRUE
    /\ now = 0 /\ advances = 0
    /\ blocked = "none" /\ err = "none"
    /\ zones = zs /\ restor_df = << >>
    /\ ocean = [totalPlasticRemoved |-> OCEAN_FALLBACK]
    /\ ecosia_trees = ECOSIA_FALLBACK
    /\ geojson_data = << >>
    /\ cache = [s \in Sources |->
                  [stored |-> TRUE, at |-> 0,
                   value |-> IF s = ELEC THEN zs
                             ELSE IF s = RESTOR THEN << >>
                             ELSE IF s = OCEAN THEN [totalPlasticRemoved |-> OCEAN_FALLBACK]
                             ELSE ECOSIA_FALLBACK]]
    /\ electricity_layer = << >> /\ layers = {}
    /\ cluster = << >> /\ sidebar = NoSidebar /\ shown = FALSE
    /\ contacted = {ZonesUrl, IntensityUrl, RestorUrl, OceanUrl, EcosiaUrl}
    /\ ran = 1
    /\ inWindow = [s \in Sources |-> 1]
    /\ lastOutcome = [s \in Sources |-> IF s = ELEC THEN "live" ELSE "failed"]

RenderInit ==
    /\ \E zs \in ZoneTables : AfterAdapters(zs)
    /\ pc = "electricity_layer"
    /\ pct = None /\ color = "unset"

RenderNext ==
    \/ NoElectricityLayer
    \/ ElectricityLayer(GeoFeeds(GeoNames))
    \/ RestorLayer
    \/ Sidebar
    \/ Show

RenderSpec == RenderInit /\ [][RenderNext]_vars

\* ------------------------------------------------------ the colour ladder
\* The run inside the loop, at line 93, for a zone that reports p as its
\* renewablePercentage only.
ClassifyInit ==
    /\ \E p \in 0..MaxPct :
        /\ AfterAdapters([z \in {"A"} |->
                            [countryName |-> NoName,
                             lowCarbonPercentage |-> None,
                             renewablePercentage |-> p]])
        /\ pct = p
    /\ pc = "line 93"
    /\ color = "unset"

\* Line 93.
Classify ==
    /\ pc = "line 93"
    /\ color' = classify(pct)
    /\ pc' = "line 94"
    /\ UNCHANGED << token, now, advances, blocked, err, cache, globals, pct,
                    electricity_layer, layers, cluster, sidebar, shown, history >>

ClassifySpec == ClassifyInit /\ [][Classify]_vars

\* ================================================================ claims
\* The variable a call of adapter s is assigned to.
GlobalOf(s) ==
    IF s = ELEC THEN zones
    ELSE IF s = RESTOR THEN restor_df
    ELSE IF s = OCEAN THEN ocean
    ELSE ecosia_trees

\* The step is a call of adapter s that returns.
Returns(s) == pc = s /\ pc' = After(s)

\* The five buckets as the intervals of the specification.
Bucket(p) ==
    CHOOSE b \in {"darkgreen", "green", "lightgreen", "yellow", "orange"} :
        /\ b = "darkgreen" <=> p > 80
        /\ b = "green" <=> (60 < p /\ p <= 80)
        /\ b = "lightgreen" <=> (40 < p /\ p <= 60)
        /\ b = "yellow" <=> (20 < p /\ p <= 40)
        /\ b = "orange" <=> p <= 20

\* C1: every percentage that is classified gets exactly the bucket of its
\* interval: above 80 darkgreen, (60, 80] green, (40, 60] lightgreen,
\* (20, 40] yellow, at most 20 orange; 80, 60, 40 and 20 fall into the lower
\* bucket.
C1_Ladder ==
    pc = "line 94" =>
        /\ pct > 80 => color = "darkgreen"
        /\ (60 < pct /\ pct <= 80) => color = "green"
        /\ (40 < pct /\ pct <= 60) => color = "lightgreen"
        /\ (20 < pct /\ pct <= 40) => color = "yellow"
        /\ pct <= 20 => color = "orange"

C1_Witness == pc = "line 94" /\ pct = 80 /\ color = "green"

\* C2: while the clock is inside the window [fetched_at, fetched_at + ttl)
\* of a stored entry, a call of the adapter returns the stored value, runs
\* the adapter not at all and leaves the entry as it is, whether the entry
\* holds a live value or a fallback; no window sees more than one run of the
\* adapter.
C2_Idempotent ==
    [][\A s \in Sources :
          /\ inWindow'[s] <= 1
          /\ (cache[s].stored /\ now' < cache[s].at + ttl[s]) => cache'[s] = cache[s]
          /\ (pc = s /\ blocked = "none" /\ InWindow(s)) =>
                /\ Returns(s)
                /\ ran' = 0
                /\ GlobalOf(s)' = cache[s].value
                /\ contacted' = contacted
                /\ lastOutcome' = lastOutcome]_vars

C2_Witness ==
    /\ pc = ECOSIA /\ ran = 0
    /\ lastOutcome[OCEAN] = "failed"
    /\ ocean = cache[OCEAN].value
    /\ cache[OCEAN].at = 0 /\ now = 300
    /\ cache[ELEC].at = 300

\* C3: a call of an adapter whose stored entry is as old as its ttl or older
\* runs the adapter once, and when it returns, it returns what that run
\* stored; no call ever returns an entry whose age is not below its ttl.
C3_Refresh ==
    [][\A s \in Sources :
          /\ (pc = s /\ blocked = "none" /\ cache[s].stored
                /\ now >= cache[s].at + ttl[s]) =>
                /\ ran' = 1
                /\ inWindow'[s] = 1
                /\ Returns(s) => cache'[s].at = now
          /\ Returns(s) =>
                /\ cache'[s].stored
                /\ now < cache'[s].at + ttl[s]
                /\ GlobalOf(s)' = cache'[s].value]_vars

C3_Witness ==
    /\ pc = ECOSIA /\ ran = 1
    /\ now = 1800
    /\ cache[OCEAN].stored /\ cache[OCEAN].at = 1800
    /\ cache[RESTOR].stored /\ cache[RESTOR].at = 0

\* C4: no adapter raises, and when the latest fetch of a source failed (the
\* call raised, or the expected field or pattern was absent), the entry and
\* the script's variable hold the source's fallback: 750000000 kg for the
\* ocean cleanup, 215000000 trees for Ecosia, nothing for the other two.
C4_Fallback ==
    /\ err \notin Sources
    /\ lastOutcome[OCEAN] = "failed" =>
          /\ cache[OCEAN].stored
          /\ cache[OCEAN].value = [totalPlasticRemoved |-> 750000000]
          /\ ocean \in {NoOcean, [totalPlasticRemoved |-> 750000000]}
    /\ lastOutcome[ECOSIA] = "failed" =>
          /\ cache[ECOSIA].stored
          /\ cache[ECOSIA].value = 215000000
          /\ ecosia_trees \in {None, 215000000}
    /\ lastOutcome[RESTOR] = "failed" =>
          /\ cache[RESTOR].stored /\ cache[RESTOR].value = << >> /\ restor_df = << >>
    /\ lastOutcome[ELEC] = "failed" =>
          /\ cache[ELEC].stored /\ cache[ELEC].value = EmptyDict /\ zones = EmptyDict

C4_Witness ==
    /\ pc = "idle" /\ shown /\ now > 1800
    /\ cache[OCEAN].at > 0
    /\ lastOutcome[OCEAN] = "failed" /\ lastOutcome[ECOSIA] = "failed"
    /\ sidebar.plastic = 750000000 /\ sidebar.trees = 215000000

Reporting(zs) == { z \in DOMAIN zs : zs[z].lowCarbonPercentage # None }

\* C6: the average shown is the mean of lowCarbonPercentage over the zones
\* that report one: sum / number of reporting zones.
C6_MeanOverReporting ==
    (sidebar.avg_shown /\ Reporting(zones) # {}) =>
        sidebar.avg.num * Cardinality(Reporting(zones))
            = sum_low(zones, Reporting(zones)) * sidebar.avg.den

\* The percentage of a metric record: lowCarbonPercentage when it is there,
\* else renewablePercentage, else none.
OwnPct(z) ==
    IF z.lowCarbonPercentage # None THEN z.lowCarbonPercentage
    ELSE z.renewablePercentage

\* Geometry i of the feed names a zone of the table that has a percentage.
Matched(i) ==
    /\ geojson_data[i].zoneName # NoName
    /\ geojson_data[i].zoneName \in DOMAIN zones
    /\ OwnPct(zones[geojson_data[i].zoneName]) # None

FeaturesOf(i) == { k \in 1..Len(electricity_layer) : electricity_layer[k].geom = i }

\* C7: in the decarbonization layer a geometry with no matching metric has
\* no feature, and a geometry that matches a metric with a percentage has
\* exactly one, styled with the bucket of its own zone's percentage.
C7_Join ==
    "electricity" \in layers =>
        \A i \in 1..Len(geojson_data) :
            IF Matched(i)
            THEN /\ Cardinality(FeaturesOf(i)) = 1
                 /\ \A k \in FeaturesOf(i) :
                        electricity_layer[k].fillColor
                            = Bucket(OwnPct(zones[geojson_data[i].zoneName]))
            ELSE FeaturesOf(i) = {}

\* C8: no run of the script is aborted: whichever fetch fails, the run goes
\* on to show the map.
C8_NoFatalFailure == pc # "crashed"

\* C9: every call of an adapter, and every run that waits for a reply,
\* eventually goes on.
C9_EveryCallReturns == [](blocked # "none" => <>(blocked = "none"))

\* C10: a matched zone is classified by its lowCarbonPercentage whenever it
\* has one (0 included), by its renewablePercentage only when it has none,
\* and is left out only when it has neither.
C10_LowCarbonFirst ==
    "electricity" \in layers =>
        \A i \in 1..Len(geojson_data) :
            LET id == geojson_data[i].zoneName IN
            (id # NoName /\ id \in DOMAIN zones) =>
                IF OwnPct(zones[id]) = None
                THEN FeaturesOf(i) = {}
                ELSE \E k \in FeaturesOf(i) :
                        electricity_layer[k].pct = OwnPct(zones[id])
====
